---- MODULE Spec2Model ----
(***************************************************************************)
(* Warehouse layout engine (backend/warehouse_calc.py), its HTTP API and   *)
(* in-memory store (backend/main.py) and the dashboard's unit helper       *)
(* (frontend/warehouse_visualizer.py).                                     *)
(*                                                                         *)
(* Numbers.  Python floats are modelled as exact rationals <<n, d>> with   *)
(* d > 0 and gcd(n, d) = 1, so that every division of the engine is exact  *)
(* and an equality of the model is an equality "within floating-point      *)
(* tolerance" of the code.                                                 *)
(*                                                                         *)
(* Exceptions.  A call returns a record [kind, val]: kind = "return" with  *)
(* the returned value in the one-element sequence val, or kind = the name  *)
(* of the Python exception raised, with val = << >>.                       *)
(*                                                                         *)
(* Evaluation.  TLC re-evaluates a LET definition and an operator argument *)
(* at each of their uses when it measures coverage.  A local value that is *)
(* used more than once is therefore bound by a set constructor,            *)
(*     Only({ body : x \in {e} }),                                         *)
(* which evaluates e once; it reads as  LET x == e IN body.                *)
(***************************************************************************)
EXTENDS Integers, Sequences, FiniteSets, TLC

VARIABLES
    value, unit, backend_ret, frontend_ret,   \* one unit conversion, at both call sites
    config, calc, first, last, other,         \* direct calls of the layout engine
    warehouse_data, request, response,        \* the API and its store
    history,                                  \* per id, the last successful create or delete
    children, clicked                         \* the dashboard's pallet containers

vars == << value, unit, backend_ret, frontend_ret,
           config, calc, first, last, other,
           warehouse_data, request, response, history,
           children, clicked >>

unitVars   == << value, unit, backend_ret, frontend_ret >>
engineVars == << config, calc, first, last, other >>
apiVars    == << warehouse_data, request, response, history >>
dashVars   == << children, clicked >>

Only(S) == CHOOSE x \in S : TRUE

(* A sequence given as a function, evaluated into a tuple.                 *)
Tuple(f) == f \o << >>

----------------------------------------------------------------------------
(* Exact rational arithmetic                                               *)

Abs(a) == IF a < 0 THEN -a ELSE a

RECURSIVE GCD(_, _)
GCD(a, b) == IF b = 0 THEN a ELSE Only({ GCD(b, m) : m \in {a % b} })

Norm(n, d) ==
    Only({ Only({ IF p[2] < 0 THEN << -(p[1] \div g), -(p[2] \div g) >>
                  ELSE << p[1] \div g, p[2] \div g >> :
                  g \in { GCD(Abs(p[1]), Abs(p[2])) } }) :
           p \in { << n, d >> } })

R(i) == << i, 1 >>
RZero == << 0, 1 >>
RAdd(a, b) ==
    Only({ Norm(p[1][1] * p[2][2] + p[2][1] * p[1][2], p[1][2] * p[2][2]) :
           p \in { << a, b >> } })
RNeg(a) == Only({ << -p[1], p[2] >> : p \in {a} })
RSub(a, b) == RAdd(a, RNeg(b))
RMul(a, b) ==
    Only({ << q[1][1] * q[2][1], q[1][2] * q[2][2] >> :
           q \in { << Norm(p[1][1], p[2][2]), Norm(p[2][1], p[1][2]) >> :
                   p \in { << a, b >> } } })
RDiv(a, b) == Only({ RMul(a, Norm(q[2], q[1])) : q \in {b} })      \* b # 0
RLt(a, b) == \E p \in { << a, b >> } : p[1][1] * p[2][2] < p[2][1] * p[1][2]
RLe(a, b) == \E p \in { << a, b >> } : p[1][1] * p[2][2] <= p[2][1] * p[1][2]

(* The sum of a tuple of rationals, and of integers.                       *)
RECURSIVE RSumTo(_, _)
RSumTo(s, k) == IF k = 0 THEN RZero ELSE RAdd(RSumTo(s, k - 1), s[k])
RSum(s) == Only({ RSumTo(t, Len(t)) : t \in { Tuple(s) } })

RECURSIVE SumTo(_, _)
SumTo(s, k) == IF k = 0 THEN 0 ELSE SumTo(s, k - 1) + s[k]
Sum(s) == Only({ SumTo(t, Len(t)) : t \in { Tuple(s) } })

(* Call results                                                            *)
Return(v)   == [kind |-> "return", val |-> << v >>]
Raise(e)    == [kind |-> e, val |-> << >>]
Returned(r) == r.kind = "return"
Val(r)      == r.val[1]

(* The first exception raised by a tuple of calls evaluated in order, as   *)
(* << exception >>, or << >> when every call returns.                      *)
FirstRaise(rs) ==
    Only({ IF bad = {} THEN << >>
           ELSE << rs[CHOOSE i \in bad : \A k \in bad : i <= k] >> :
           bad \in { { i \in DOMAIN rs : ~Returned(rs[i]) } } })

----------------------------------------------------------------------------
(* Python values handed to a conversion: a number, None, '' or a           *)
(* non-numeric string.                                                     *)
Num(q)   == [t |-> "num",   q |-> q]
PyNone   == [t |-> "none",  q |-> RZero]
PyEmpty  == [t |-> "empty", q |-> RZero]
PyText   == [t |-> "text",  q |-> RZero]
N(i)     == Num(R(i))

(* WarehouseCalculator.__init__: the table of centimeter factors.          *)
conversion_factors ==
    [u \in {"cm", "m", "km", "in", "ft", "yd", "mi"} |->
        CASE u = "cm" -> R(1)
          [] u = "m"  -> R(100)
          [] u = "km" -> R(100000)
          [] u = "in" -> Norm(254, 100)
          [] u = "ft" -> Norm(3048, 100)
          [] u = "yd" -> Norm(9144, 100)
          [] u = "mi" -> Norm(1609344, 10)]

(* WarehouseCalculator.convert_to_centimeters.  self is the instance's     *)
(* conversion_factors; value * factor raises TypeError for None and for a  *)
(* string.                                                                 *)
convert_to_centimeters(self, v, u) ==
    IF u \notin DOMAIN self THEN Raise("ValueError")
    ELSE IF v.t # "num" THEN Raise("TypeError")
    ELSE Return(RMul(v.q, self[u]))

(* str.lower() on the unit strings of the model.                           *)
lower(u) == IF u = "CM" THEN "cm" ELSE u

(* The dashboard's to_cm.                                                  *)
to_cm(v, u) ==
    IF v.t \in {"none", "empty"} THEN Return(RZero)
    ELSE IF v.t = "text" THEN Return(RZero)
    ELSE Only({ IF lu = "mm" THEN Return(RDiv(v.q, R(10)))
                ELSE IF lu = "cm" THEN Return(v.q)
                ELSE IF lu = "m" THEN Return(RMul(v.q, R(100)))
                ELSE IF lu = "ft" THEN Return(RMul(v.q, Norm(3048, 100)))
                ELSE IF lu = "in" THEN Return(RMul(v.q, Norm(254, 100)))
                ELSE Return(v.q) :
                lu \in { lower(u) } })

----------------------------------------------------------------------------
(* The layout engine: WarehouseCalculator                                  *)

(* math.ceil(a / b) for an integer a and b > 0.                            *)
ceil_div(a, b) == -((-a) \div b)

row_gap_std == 150
min_rack_w == 10
fallback_rack_w == 50
fallback_available_width == 100
rack_h_percent == 80

(* block_conf.get('pallet_configs', [])                                    *)
get_pallet_configs(block_conf) ==
    IF "pallet_configs" \in DOMAIN block_conf THEN block_conf.pallet_configs ELSE << >>

(* create_pallet_data: the pallet entry attached to a rack-floor cell.     *)
create_pallet_data(self, pallet_conf) ==
    Only({ IF FirstRaise(d) # << >> THEN FirstRaise(d)[1]
           ELSE Return([type       |-> pallet_conf.type,
                        color      |-> pallet_conf.color,
                        weight     |-> pallet_conf.weight,
                        dimensions |-> [length |-> Val(d[1]), width |-> Val(d[2]),
                                        height |-> Val(d[3])],
                        position   |-> pallet_conf.position]) :
           d \in { << convert_to_centimeters(self, pallet_conf.length, pallet_conf.unit),
                      convert_to_centimeters(self, pallet_conf.width, pallet_conf.unit),
                      convert_to_centimeters(self, pallet_conf.height, pallet_conf.unit) >> } })

(* The test of lines 163-165: the pallet's position is cell (f, r, c),     *)
(* 1-based.                                                                *)
pallet_matchesSwapped(pallet_pos, f, r, c) ==
    /\ pallet_pos.floor = f
    /\ pallet_pos.row = c
    /\ pallet_pos.col = r

pallet_matches(pallet_pos, f, r, c) ==
    /\ pallet_pos.floor = f
    /\ pallet_pos.row = r
    /\ pallet_pos.col = c

(* The gap index starts anew in each row.                                  *)
gap_beforePerRow(c, global_rack_count, custom_gaps) ==
    IF c > 0 /\ c - 1 < Len(custom_gaps) THEN custom_gaps[c] ELSE RZero

(* No custom gap is ever placed.                                           *)
gap_beforeNone(c, global_rack_count, custom_gaps) == RZero

(* The gap placed before the rack at 0-based column c (lines 130-134).     *)
gap_before(c, global_rack_count, custom_gaps) ==
    IF c > 0 /\ global_rack_count - 1 < Len(custom_gaps)
    THEN custom_gaps[(global_rack_count - 1) + 1]
    ELSE RZero

(* current_x_offset += rack_w (line 170).                                  *)
advance_x_offsetHalf(current_x_offset, rack_w) ==
    RAdd(current_x_offset, RDiv(rack_w, R(2)))

advance_x_offset(current_x_offset, rack_w) == RAdd(current_x_offset, rack_w)

(* Rows laid out about the middle of the block's length.                   *)
row_z_posCentered(L, r) ==
    RAdd(RDiv(L.rack_l, R(2)), RMul(R(r), RAdd(L.rack_l, R(row_gap_std))))

(* z_start and z_pos (lines 139-140) for 0-based row r.                    *)
row_z_pos(L, r) ==
    RAdd(RAdd(RAdd(RNeg(RDiv(L.block_dims.length, R(2))), L.gap_f),
              RDiv(L.rack_l, R(2))),
         RMul(R(r), RAdd(L.rack_l, R(row_gap_std))))

(* Floors placed by their lower face.                                      *)
floor_y_posLowerFace(f, floor_h) == RMul(R(f), floor_h)

(* y_pos (line 145) for 0-based floor f.                                   *)
floor_y_pos(f, floor_h) == RAdd(RMul(R(f), floor_h), RDiv(floor_h, R(2)))

(* The body of the floor loop (lines 144-168) for 0-based f, r, c: the     *)
(* rack-floor entry, or the exception create_pallet_data raised.  L holds  *)
(* the locals of calculate_racks_for_block.                                *)
rack_data(self, L, r, c, f, x_pos, z_pos) ==
    Only({ IF FirstRaise(made) # << >> THEN FirstRaise(made)[1]
           ELSE Return(
               [id         |-> << r + 1, c + 1, f + 1 >>,
                position   |-> [x |-> x_pos,
                                y |-> floor_y_pos(f, L.floor_h),
                                z |-> z_pos],
                dimensions |-> [width |-> L.rack_w, length |-> L.rack_l,
                                height |-> L.floor_h],
                floor      |-> f + 1,
                row        |-> r + 1,
                column     |-> c + 1,
                pallets    |-> Tuple([i \in 1..Len(made) |-> Val(made[i])])]) :
           made \in { Tuple([i \in 1..Len(matches) |-> create_pallet_data(self, matches[i])]) :
                      matches \in { SelectSeq(L.pallet_configs,
                                       LAMBDA p : pallet_matches(p.position,
                                                                 f + 1, r + 1, c + 1)) } } })

(* One pass of the column loop that emits a rack (lines 130-171): st holds *)
(* racks, global_rack_count, current_x_offset and the exception raised so  *)
(* far, if any.                                                            *)
emit_rack(self, L, r, c, st) ==
    Only({ IF FirstRaise(P.floors) # << >>
           THEN [st EXCEPT !.raised = FirstRaise(P.floors)]
           ELSE [st EXCEPT
                    !.racks = @ \o Tuple([i \in 1..Len(P.floors) |-> Val(P.floors[i])]),
                    !.current_x_offset = advance_x_offset(P.x0, L.rack_w),
                    !.global_rack_count = @ + 1] :
           P \in { [x0 |-> x0,
                    floors |-> Tuple([i \in 1..L.num_floors |->
                        rack_data(self, L, r, c, i - 1,
                            RAdd(x0, RDiv(L.rack_w, R(2))),
                            row_z_pos(L, r))])] :
                   x0 \in { RAdd(st.current_x_offset,
                                 gap_before(c, st.global_rack_count, L.custom_gaps)) } } })

(* The column loop of one row (lines 127-171), from column c on.           *)
RECURSIVE col_loop(_, _, _, _, _)
col_loop(self, L, r, c, st) ==
    IF st.raised # << >> \/ c >= L.racks_per_row THEN st
    ELSE IF st.global_rack_count >= L.num_racks_total THEN st        \* break
    ELSE Only({ col_loop(self, L, r, c + 1, n) : n \in { emit_rack(self, L, r, c, st) } })

(* The row loop (lines 124-171), from row r on.                            *)
RECURSIVE row_loop(_, _, _, _)
row_loop(self, L, r, st) ==
    IF st.raised # << >> \/ r >= L.num_rows THEN st
    ELSE Only({ row_loop(self, L, r + 1, n) :
                n \in { col_loop(self, L, r, 0, s0) :
                        s0 \in { [st EXCEPT !.current_x_offset =
                                    RAdd(RNeg(RDiv(L.block_dims.width, R(2))), L.gap_l)] } } })

(* The gap sum of row r used for sizing (lines 99-104).                    *)
current_row_gap_sum(r, rpr, custom_gaps) ==
    RSum([c \in 1..(rpr - 1) |->
            IF r * rpr + (c - 1) < Len(custom_gaps)
            THEN custom_gaps[r * rpr + (c - 1) + 1] ELSE RZero])

(* max_row_gap_sum after rows 0..r-1 (lines 97-106).                       *)
RECURSIVE max_row_gap_sum(_, _, _)
max_row_gap_sum(r, rpr, custom_gaps) ==
    IF r = 0 THEN RZero
    ELSE Only({ IF RLt(p[1], p[2]) THEN p[2] ELSE p[1] :
                p \in { << max_row_gap_sum(r - 1, rpr, custom_gaps),
                           current_row_gap_sum(r - 1, rpr, custom_gaps) >> } })

(* racks_per_row rounded down.                                             *)
racks_per_rowFloor(num_racks_total, num_rows) ==
    IF num_rows > 0 THEN num_racks_total \div num_rows ELSE 0

(* racks_per_row (line 93).                                                *)
racks_per_row(num_racks_total, num_rows) ==
    IF num_rows > 0 THEN ceil_div(num_racks_total, num_rows) ELSE 0

(* rack_w (lines 112-113).                                                 *)
rack_width(avail_w, gap_sum, rpr) ==
    Only({ IF RLt(rack_w, R(min_rack_w)) THEN R(fallback_rack_w) ELSE rack_w :
           rack_w \in { RDiv(RSub(avail_w, gap_sum), R(rpr)) } })

(* The locals of calculate_racks_for_block before its loops (lines         *)
(* 89-120): g holds the converted front, back, left and right wall gaps    *)
(* followed by the converted custom gaps.                                  *)
rack_locals(block_dims, block_conf, g) ==
    Only({ [block_dims      |-> block_dims,
            gap_f           |-> g[1],
            gap_l           |-> g[3],
            custom_gaps     |-> Q.custom_gaps,
            num_rows        |-> Q.num_rows,
            num_racks_total |-> block_conf.rack_config.num_racks,
            num_floors      |-> block_conf.rack_config.num_floors,
            racks_per_row   |-> Q.rpr,
            rack_w          |-> rack_width(RSub(RSub(block_dims.width, g[3]), g[4]),
                                    max_row_gap_sum(Q.num_rows, Q.rpr, Q.custom_gaps),
                                    Q.rpr),
            rack_l          |-> RDiv(RSub(RSub(RSub(block_dims.length, g[1]), g[2]),
                                          IF Q.num_rows > 1
                                          THEN R(row_gap_std * (Q.num_rows - 1))
                                          ELSE RZero),
                                     R(Q.num_rows)),
            floor_h         |-> RDiv(RMul(block_dims.height, Norm(rack_h_percent, 100)),
                                     R(block_conf.rack_config.num_floors)),
            pallet_configs  |-> get_pallet_configs(block_conf)] :
           Q \in { [custom_gaps |-> SubSeq(g, 5, Len(g)),
                    num_rows    |-> block_conf.rack_config.num_rows,
                    rpr         |-> racks_per_row(block_conf.rack_config.num_racks,
                                                  block_conf.rack_config.num_rows)] } })

(* calculate_racks_for_block: the rack-floor entries of one block.         *)
calculate_racks_for_block(self, block_dims, block_conf) ==
    Only({ IF FirstRaise(g) # << >> THEN FirstRaise(g)[1]
           ELSE IF racks_per_row(block_conf.rack_config.num_racks,
                                 block_conf.rack_config.num_rows) = 0
           THEN Return(<< >>)
           ELSE IF block_conf.rack_config.num_floors = 0 THEN Raise("ZeroDivisionError")
           ELSE Only({ IF st.raised # << >> THEN st.raised[1] ELSE Return(st.racks) :
                       st \in { row_loop(self, L, 0,
                                    [racks |-> << >>, global_rack_count |-> 0,
                                     current_x_offset |-> RZero, raised |-> << >>]) :
                                L \in { rack_locals(block_dims, block_conf,
                                            Tuple([i \in 1..Len(g) |-> Val(g[i])])) } } }) :
           g \in { Only({ << convert_to_centimeters(self, rc.gap_front, rc.wall_gap_unit),
                             convert_to_centimeters(self, rc.gap_back, rc.wall_gap_unit),
                             convert_to_centimeters(self, rc.gap_left, rc.wall_gap_unit),
                             convert_to_centimeters(self, rc.gap_right, rc.wall_gap_unit) >>
                          \o Tuple([i \in 1..Len(rc.custom_gaps) |->
                                convert_to_centimeters(self, rc.custom_gaps[i], rc.gap_unit)]) :
                          rc \in { block_conf.rack_config } }) } })

(* get_block_color: the index into the eight-colour palette.               *)
get_block_color(index) == index % 8

(* available_width with its fallback (lines 34-36).                        *)
block_available_width(wh_width, total_gap_width) ==
    Only({ IF RLe(available_width, RZero) THEN R(fallback_available_width)
           ELSE available_width :
           available_width \in { RSub(wh_width, total_gap_width) } })

(* Block sizes whose start_x is the left edge of the occupied width.       *)
block_sizesFromEdge(num_blocks, c) ==
    Only({ [block_width |-> B.block_width,
            block_gap   |-> c[4],
            start_x     |-> RDiv(RNeg(RAdd(RMul(B.block_width, R(num_blocks)),
                                           B.total_gap_width)), R(2)),
            dims        |-> [width |-> B.block_width, length |-> c[1], height |-> c[3]]] :
           B \in { [total_gap_width |-> t,
                    block_width |-> RDiv(block_available_width(c[2], t), R(num_blocks))] :
                   t \in { IF num_blocks > 1 THEN RMul(c[4], R(num_blocks - 1))
                           ELSE RZero } } })

(* The block sizes of create_warehouse_layout (lines 32-44): c holds the   *)
(* converted warehouse length, width, height and block gap.                *)
block_sizes(num_blocks, c) ==
    Only({ [block_width |-> B.block_width,
            block_gap   |-> c[4],
            start_x     |-> RAdd(RDiv(RNeg(RAdd(RMul(B.block_width, R(num_blocks)),
                                                B.total_gap_width)), R(2)),
                                 RDiv(B.block_width, R(2))),
            dims        |-> [width |-> B.block_width, length |-> c[1], height |-> c[3]]] :
           B \in { [total_gap_width |-> t,
                    block_width |-> RDiv(block_available_width(c[2], t), R(num_blocks))] :
                   t \in { IF num_blocks > 1 THEN RMul(c[4], R(num_blocks - 1))
                           ELSE RZero } } })

(* The block entries and the returned document (lines 46-74): racks holds  *)
(* the rack lists of the blocks.                                           *)
layout_document(cfg, S, racks) ==
    [warehouse_dimensions |-> cfg.warehouse_dimensions,
     blocks |-> Tuple([i \in 1..Len(cfg.block_configs) |->
        [id         |-> i,
         position   |-> [x |-> RAdd(S.start_x,
                                    RMul(R(i - 1), RAdd(S.block_width, S.block_gap))),
                         y |-> RZero, z |-> RZero],
         dimensions |-> S.dims,
         color      |-> get_block_color(i - 1),
         racks      |-> racks[i]]]),
     total_pallets |-> Sum([i \in 1..Len(cfg.block_configs) |->
                                Len(get_pallet_configs(cfg.block_configs[i]))])]

(* create_warehouse_layout: the layout document of a configuration.        *)
create_warehouse_layout(self, cfg) ==
    Only({ IF FirstRaise(c) # << >> THEN FirstRaise(c)[1]
           ELSE IF cfg.num_blocks = 0 THEN Raise("ZeroDivisionError")
           ELSE Only({ Only({ IF FirstRaise(racks) # << >> THEN FirstRaise(racks)[1]
                              ELSE Return(layout_document(cfg, S,
                                     Tuple([i \in 1..Len(racks) |-> Val(racks[i])]))) :
                              racks \in { Tuple([i \in 1..Len(cfg.block_configs) |->
                                    calculate_racks_for_block(self, S.dims,
                                                              cfg.block_configs[i])]) } }) :
                       S \in { block_sizes(cfg.num_blocks,
                                           Tuple([i \in 1..Len(c) |-> Val(c[i])])) } }) :
           c \in { Only({ << convert_to_centimeters(self, d.length, d.unit),
                             convert_to_centimeters(self, d.width, d.unit),
                             convert_to_centimeters(self, d.height, d.unit),
                             convert_to_centimeters(self, cfg.block_gap, cfg.block_gap_unit) >> :
                          d \in { cfg.warehouse_dimensions } }) } })

----------------------------------------------------------------------------
(* The configurations handed to the engine                                 *)

MaxBlocks == 2
MaxRows == 2
MaxRacks == 4
MaxFloors == 2

Pallet(type, f, r, c, u) ==
    [type |-> type, color |-> "#8B4513", weight |-> N(25),
     length |-> N(120), width |-> N(80), height |-> N(15), unit |-> u,
     position |-> [floor |-> f, row |-> r, col |-> c]]

PalletLists ==
    { << >>,
      << Pallet("wooden", 1, 1, 1, "cm") >>,
      << Pallet("wooden", 1, 1, 1, "cm"), Pallet("plastic", 1, 1, 1, "m") >>,
      << Pallet("wooden", 2, 1, 2, "cm"), Pallet("plastic", 1, 2, 1, "cm"),
         Pallet("metal", 2, 1, 2, "cm") >>,
      << Pallet("wooden", 1, 1, 3, "cm"), Pallet("plastic", 0, 1, 1, "cm") >>,
      << Pallet("wooden", 1, 2, 2, "mm") >> }

GapLists ==
    { << >>, << N(20) >>, << N(20), N(30), N(40) >>, << N(-60), N(10) >> }

WallGaps ==
    { [front |-> N(100), back |-> N(100), left |-> N(50), right |-> N(50)],
      [front |-> N(0),   back |-> N(0),   left |-> N(0),  right |-> N(0)],
      [front |-> N(200), back |-> N(200), left |-> N(90), right |-> N(90)],
      [front |-> N(300), back |-> N(100), left |-> N(50), right |-> N(150)] }

RackConfig(floors, rows, racks, gaps, gap_unit, wall, wall_gap_unit) ==
    [num_floors |-> floors, num_rows |-> rows, num_racks |-> racks,
     gap_between_racks |-> N(0), custom_gaps |-> gaps, gap_unit |-> gap_unit,
     gap_front |-> wall.front, gap_back |-> wall.back,
     gap_left |-> wall.left, gap_right |-> wall.right,
     wall_gap_unit |-> wall_gap_unit]

Block(rack_config, pallets) ==
    [rack_config |-> rack_config, pallet_configs |-> pallets]

DefaultWall == [front |-> N(100), back |-> N(100), left |-> N(50), right |-> N(50)]
DefaultBlock ==
    Block(RackConfig(MaxFloors, 2, 4, << N(20) >>, "cm", DefaultWall, "cm"),
          << Pallet("wooden", 1, 1, 1, "cm") >>)

Warehouse(l, w, h, u, num_blocks, gap, gap_unit, blocks) ==
    [warehouse_dimensions |-> [length |-> N(l), width |-> N(w), height |-> N(h), unit |-> u],
     num_blocks |-> num_blocks, block_gap |-> N(gap), block_gap_unit |-> gap_unit,
     block_configs |-> blocks]

(* Warehouse-level variation: envelope, units, block count and gap, and a  *)
(* block list whose length may disagree with num_blocks.                   *)
WarehouseConfigs ==
    { Warehouse(3000, w, h, u, nb, g, gu, [i \in 1..len |-> DefaultBlock]) :
        w \in {200, 2000}, h \in {0, 800}, u \in {"cm", "m", "mm"},
        nb \in 0..MaxBlocks, g \in {0, 300}, gu \in {"cm", "xx"},
        len \in 0..MaxBlocks }

(* Rack-level variation inside one block.                                  *)
RackConfigs ==
    { Warehouse(lw[1], lw[2], 800, "cm", 1, 300, "cm",
        << Block(RackConfig(fl, rows, racks, gaps, "cm", wall, "cm"),
                 << Pallet("wooden", 1, 1, 1, "cm") >>) >>) :
        lw \in { << 3000, 2000 >>, << 300, 2000 >>, << 3000, 200 >> },
        fl \in 0..MaxFloors, rows \in 0..MaxRows, racks \in 0..MaxRacks,
        gaps \in GapLists, wall \in WallGaps }

(* Pallet variation, and unit variation of the rack gaps, in the second of *)
(* two blocks.                                                             *)
PalletConfigs ==
    { Warehouse(3000, 2000, 800, "cm", 2, 300, "cm",
        << DefaultBlock,
           Block(RackConfig(fl, rows, racks, << N(20) >>, gu, DefaultWall, wu), ps) >>) :
        fl \in 1..MaxFloors, rows \in 1..MaxRows, racks \in 0..MaxRacks,
        gu \in {"cm", "mm"}, wu \in {"cm", "ft"}, ps \in PalletLists }

Configs == WarehouseConfigs \cup RackConfigs \cup PalletConfigs

Instances == {"a", "b"}

(* The block cards of the dashboard, by block index.                       *)
MaxCards == 2
Cards == 0..(MaxCards - 1)

(* The warehouse ids of the requests.                                      *)
Ids == {"w1", "w2"}

----------------------------------------------------------------------------
(* Idle values of the groups of variables                                  *)

UnitIdle   == value = PyNone /\ unit = "cm" /\ backend_ret = << >> /\ frontend_ret = << >>
EngineIdle == /\ config = << >> /\ calc = [i \in Instances |-> conversion_factors]
              /\ first = << >> /\ last = << >> /\ other = << >>
DashIdle   == children = [b \in Cards |-> << >>] /\ clicked = << >>
ApiIdle    == /\ warehouse_data = [id \in {} |-> << >>]
              /\ request = << >> /\ response = << >>
              /\ history = [id \in Ids |-> << >>]

----------------------------------------------------------------------------
(* One conversion at both call sites                                       *)

Values == { PyNone, PyEmpty, PyText,
            N(0), N(1), N(5), N(250), N(-3), Num(Norm(5, 2)) }

UnitStrings == {"mm", "cm", "m", "km", "in", "ft", "yd", "mi", "CM", "xx"}

UnitInit ==
    /\ value \in Values /\ unit \in UnitStrings
    /\ backend_ret = << >> /\ frontend_ret = << >>
    /\ EngineIdle /\ ApiIdle /\ DashIdle

(* calc[i].convert_to_centimeters(value, unit)                             *)
call_convert_to_centimeters(i) ==
    /\ backend_ret' = << convert_to_centimeters(calc[i], value, unit) >>
    /\ UNCHANGED << value, unit, frontend_ret >>
    /\ UNCHANGED << engineVars, apiVars, dashVars >>

(* to_cm(value, unit)                                                      *)
call_to_cm ==
    /\ frontend_ret' = << to_cm(value, unit) >>
    /\ UNCHANGED << value, unit, backend_ret >>
    /\ UNCHANGED << engineVars, apiVars, dashVars >>

UnitNext == (\E i \in Instances : call_convert_to_centimeters(i)) \/ call_to_cm

SpecUnits == UnitInit /\ [][UnitNext]_vars

----------------------------------------------------------------------------
(* Direct calls of the engine on calculator instances.  calc[i] is the     *)
(* state of instance i: its conversion_factors attribute.                  *)

Call(i, r) == [inst |-> i, result |-> r]

EngineInit ==
    /\ config \in { << c >> : c \in Configs }
    /\ calc = [i \in Instances |-> conversion_factors]
    /\ first = << >> /\ last = << >> /\ other = << >>
    /\ UnitIdle /\ ApiIdle /\ DashIdle

(* WarehouseCalculator(): instance i is constructed anew.                  *)
new_calculator(i) ==
    /\ calc' = [calc EXCEPT ![i] = conversion_factors]
    /\ UNCHANGED << config, first, last, other >>
    /\ UNCHANGED << unitVars, apiVars, dashVars >>

(* A call that leaves a rescaled table behind in the instance.             *)
call_layoutKeepsState(i) ==
    /\ \E r \in { create_warehouse_layout(calc[i], config[1]) } :
            /\ last' = << Call(i, r) >>
            /\ first' = IF first = << >> THEN << Call(i, r) >> ELSE first
    /\ calc' = [calc EXCEPT ![i] = [u \in DOMAIN calc[i] |-> RMul(calc[i][u], R(100))]]
    /\ UNCHANGED << config, other >>
    /\ UNCHANGED << unitVars, apiVars, dashVars >>

(* calc[i].create_warehouse_layout(config).  first is the outcome of the   *)
(* first call with this config, last that of the latest one.  No attribute *)
(* of the instance is assigned.                                            *)
call_layout(i) ==
    /\ \E r \in { create_warehouse_layout(calc[i], config[1]) } :
            /\ last' = << Call(i, r) >>
            /\ first' = IF first = << >> THEN << Call(i, r) >> ELSE first
    /\ UNCHANGED << config, calc, other >>
    /\ UNCHANGED << unitVars, apiVars, dashVars >>

EngineNext == \E i \in Instances : new_calculator(i) \/ call_layout(i)

SpecEngine == EngineInit /\ [][EngineNext]_vars

(* Repeated calls interleaved with calls on other configurations.          *)
OtherConfigs ==
    { Warehouse(3000, 2000, 800, "m", 2, 300, "cm", << DefaultBlock, DefaultBlock >>),
      Warehouse(3000, 200, 800, "cm", 1, 0, "xx", << DefaultBlock >>) }

RepeatConfigs ==
    { Warehouse(3000, w, 800, u, 2, 300, "cm",
        << DefaultBlock,
           Block(RackConfig(MaxFloors, 2, racks, << N(20) >>, "cm", DefaultWall, "cm"),
                 ps) >>) :
        w \in {200, 2000}, u \in {"cm", "mm"}, racks \in {0, 3},
        ps \in { << >>,
                 << Pallet("wooden", 1, 1, 1, "cm"), Pallet("plastic", 1, 1, 1, "m") >>,
                 << Pallet("wooden", 1, 2, 2, "mm") >> } }

RepeatInit ==
    /\ config \in { << c >> : c \in RepeatConfigs }
    /\ calc = [i \in Instances |-> conversion_factors]
    /\ first = << >> /\ last = << >> /\ other = << >>
    /\ UnitIdle /\ ApiIdle /\ DashIdle

(* calc[i].create_warehouse_layout(c) for another configuration c.         *)
call_other(i, c) ==
    /\ other' = << Call(i, create_warehouse_layout(calc[i], c)) >>
    /\ UNCHANGED << config, calc, first, last >>
    /\ UNCHANGED << unitVars, apiVars, dashVars >>

RepeatNext ==
    \/ \E i \in Instances : new_calculator(i) \/ call_layout(i)
    \/ \E i \in Instances, c \in OtherConfigs : call_other(i, c)

SpecRepeat == RepeatInit /\ [][RepeatNext]_vars

----------------------------------------------------------------------------
(* The HTTP API of backend/main.py                                         *)

Get(rec, key, default) == IF key \in DOMAIN rec THEN rec[key] ELSE default

(* Parsing a JSON object into each pydantic model: a required field that   *)
(* is missing is a validation error, a missing optional field takes its    *)
(* default and a field the model does not declare is dropped.  The result  *)
(* is what model_dump() gives.                                             *)
Dimensions_validate(j) ==
    IF ~({"length", "width", "height"} \subseteq DOMAIN j) THEN Raise("ValidationError")
    ELSE Return([length |-> j.length, width |-> j.width, height |-> j.height,
                 unit |-> Get(j, "unit", "cm")])

Position_validate(j) ==
    IF ~({"floor", "row", "col"} \subseteq DOMAIN j) THEN Raise("ValidationError")
    ELSE Return([floor |-> j.floor, row |-> j.row, col |-> j.col])

PalletConfig_validate(j) ==
    IF ~({"type", "weight", "length", "width", "height", "position"} \subseteq DOMAIN j)
    THEN Raise("ValidationError")
    ELSE Only({ IF ~Returned(pos) THEN pos
                ELSE Return([type |-> j.type, weight |-> j.weight, length |-> j.length,
                             width |-> j.width, height |-> j.height,
                             unit |-> Get(j, "unit", "cm"),
                             color |-> Get(j, "color", "#8B4513"),
                             position |-> Val(pos)]) :
                pos \in { Position_validate(j.position) } })

RackConfig_validate(j) ==
    IF ~({"num_floors", "num_rows", "num_racks",
          "gap_front", "gap_back", "gap_left", "gap_right"} \subseteq DOMAIN j)
    THEN Raise("ValidationError")
    ELSE Return([num_floors |-> j.num_floors, num_rows |-> j.num_rows,
                 num_racks |-> j.num_racks,
                 gap_between_racks |-> Get(j, "gap_between_racks", N(0)),
                 custom_gaps |-> Get(j, "custom_gaps", << >>),
                 gap_unit |-> Get(j, "gap_unit", "cm"),
                 gap_front |-> j.gap_front, gap_back |-> j.gap_back,
                 gap_left |-> j.gap_left, gap_right |-> j.gap_right,
                 wall_gap_unit |-> Get(j, "wall_gap_unit", "cm")])

BlockConfig_validate(j) ==
    IF ~({"block_index", "rack_config", "pallet_config"} \subseteq DOMAIN j)
    THEN Raise("ValidationError")
    ELSE Only({ IF FirstRaise(v) # << >> THEN FirstRaise(v)[1]
                ELSE Return([block_index |-> j.block_index, rack_config |-> Val(v[1]),
                             pallet_config |-> Val(v[2])]) :
                v \in { << RackConfig_validate(j.rack_config),
                           PalletConfig_validate(j.pallet_config) >> } })

WarehouseConfig_validate(j) ==
    IF ~({"id", "warehouse_dimensions", "num_blocks", "block_gap", "block_configs"}
            \subseteq DOMAIN j)
    THEN Raise("ValidationError")
    ELSE Only({ IF FirstRaise(v) # << >> THEN FirstRaise(v)[1]
                ELSE Return([id |-> j.id, warehouse_dimensions |-> Val(v[1]),
                             num_blocks |-> j.num_blocks, block_gap |-> j.block_gap,
                             block_gap_unit |-> Get(j, "block_gap_unit", "cm"),
                             block_configs |-> Tuple([i \in 1..(Len(v) - 1) |->
                                                        Val(v[i + 1])])]) :
                v \in { << Dimensions_validate(j.warehouse_dimensions) >>
                        \o Tuple([i \in 1..Len(j.block_configs) |->
                                    BlockConfig_validate(j.block_configs[i])]) } })

(* HTTP responses.  layout, valid and warehouse are one-element sequences  *)
(* when the body carries them.                                             *)
Response(status, layout, valid, warehouse) ==
    [status |-> status, layout |-> layout, valid |-> valid, warehouse |-> warehouse]

Stored(id) == id \in DOMAIN warehouse_data

(* The handlers' "calc = WarehouseCalculator(); calc.create_warehouse_     *)
(* layout(config.model_dump())" on a parsed request, and the parse error   *)
(* when the body is no WarehouseConfig.                                    *)
parse_and_layout(j) ==
    Only({ [parsed |-> parsed,
            layout |-> IF Returned(parsed)
                       THEN create_warehouse_layout(conversion_factors, Val(parsed))
                       ELSE parsed] :
           parsed \in { WarehouseConfig_validate(j) } })

(* warehouse_data[id] = entry, and del warehouse_data[id].                 *)
Put(store, id, entry) ==
    [k \in DOMAIN store \cup {id} |-> IF k = id THEN entry ELSE store[k]]

Remove(store, id) == [k \in DOMAIN store \ {id} |-> store[k]]

(* The record of the last successful create or delete on an id.            *)
Created(config_dict, layout, replaced) ==
    [op |-> "create", config |-> config_dict, layout |-> layout, replaced |-> replaced]

Deleted == [op |-> "delete"]

(* A create that, when the computation fails, drops the id's entry.        *)
create_warehouseDropsOnFailure(j) ==
    /\ request' = << [op |-> "create", body |-> j] >>
    /\ \E c \in { parse_and_layout(j) } :
         IF ~Returned(c.parsed)
         THEN /\ response' = << Response(422, << >>, << >>, << >>) >>
              /\ UNCHANGED << warehouse_data, history >>
         ELSE IF ~Returned(c.layout)
         THEN /\ response' = << Response(400, << >>, << >>, << >>) >>
              /\ warehouse_data' = Remove(warehouse_data, Val(c.parsed).id)
              /\ UNCHANGED history
         ELSE /\ warehouse_data' =
                    Put(warehouse_data, Val(c.parsed).id,
                        [config |-> Val(c.parsed), layout |-> Val(c.layout)])
              /\ history' = [history EXCEPT ![Val(c.parsed).id] =
                    << Created(Val(c.parsed), Val(c.layout),
                               Val(c.parsed).id \in DOMAIN warehouse_data) >>]
              /\ response' = << Response(200, << Val(c.layout) >>, << >>, << >>) >>
    /\ UNCHANGED << unitVars, engineVars, dashVars >>

(* A create that, over an existing entry, writes the new config and leaves *)
(* the layout that was stored.                                             *)
create_warehouseKeepsLayout(j) ==
    /\ request' = << [op |-> "create", body |-> j] >>
    /\ \E c \in { parse_and_layout(j) } :
         IF ~Returned(c.parsed)
         THEN /\ response' = << Response(422, << >>, << >>, << >>) >>
              /\ UNCHANGED << warehouse_data, history >>
         ELSE IF ~Returned(c.layout)
         THEN /\ response' = << Response(400, << >>, << >>, << >>) >>
              /\ UNCHANGED << warehouse_data, history >>
         ELSE /\ warehouse_data' =
                    Put(warehouse_data, Val(c.parsed).id,
                        [config |-> Val(c.parsed),
                         layout |-> IF Val(c.parsed).id \in DOMAIN warehouse_data
                                    THEN warehouse_data[Val(c.parsed).id].layout
                                    ELSE Val(c.layout)])
              /\ history' = [history EXCEPT ![Val(c.parsed).id] =
                    << Created(Val(c.parsed), Val(c.layout),
                               Val(c.parsed).id \in DOMAIN warehouse_data) >>]
              /\ response' = << Response(200, << Val(c.layout) >>, << >>, << >>) >>
    /\ UNCHANGED << unitVars, engineVars, dashVars >>

(* POST /api/warehouse/create: any exception becomes a 400.  The layout is *)
(* computed before the store is assigned, and the handler has no await:    *)
(* it runs from its first line to its response without another handler in  *)
(* between.                                                                *)
create_warehouse(j) ==
    /\ request' = << [op |-> "create", body |-> j] >>
    /\ \E c \in { parse_and_layout(j) } :
         IF ~Returned(c.parsed)
         THEN /\ response' = << Response(422, << >>, << >>, << >>) >>
              /\ UNCHANGED << warehouse_data, history >>
         ELSE IF ~Returned(c.layout)
         THEN /\ response' = << Response(400, << >>, << >>, << >>) >>
              /\ UNCHANGED << warehouse_data, history >>
         ELSE /\ warehouse_data' =
                    Put(warehouse_data, Val(c.parsed).id,
                        [config |-> Val(c.parsed), layout |-> Val(c.layout)])
              /\ history' = [history EXCEPT ![Val(c.parsed).id] =
                    << Created(Val(c.parsed), Val(c.layout),
                               Val(c.parsed).id \in DOMAIN warehouse_data) >>]
              /\ response' = << Response(200, << Val(c.layout) >>, << >>, << >>) >>
    /\ UNCHANGED << unitVars, engineVars, dashVars >>

(* A validate that keeps what it computed.                                 *)
validate_configStores(j) ==
    /\ request' = << [op |-> "validate", body |-> j] >>
    /\ \E c \in { parse_and_layout(j) } :
         IF ~Returned(c.parsed)
         THEN /\ response' = << Response(422, << >>, << >>, << >>) >>
              /\ UNCHANGED warehouse_data
         ELSE IF Returned(c.layout)
         THEN /\ response' = << Response(200, << >>, << TRUE >>, << >>) >>
              /\ warehouse_data' =
                    Put(warehouse_data, Val(c.parsed).id,
                        [config |-> Val(c.parsed), layout |-> Val(c.layout)])
         ELSE /\ response' = << Response(IF c.layout.kind = "ValueError" THEN 200 ELSE 500,
                                         << >>,
                                         IF c.layout.kind = "ValueError" THEN << FALSE >>
                                         ELSE << >>,
                                         << >>) >>
              /\ UNCHANGED warehouse_data
    /\ UNCHANGED history
    /\ UNCHANGED << unitVars, engineVars, dashVars >>

(* POST /api/warehouse/validate: only ValueError is caught, any other      *)
(* exception leaves the handler (a 500).                                   *)
validate_config(j) ==
    /\ request' = << [op |-> "validate", body |-> j] >>
    /\ \E c \in { parse_and_layout(j) } :
         IF ~Returned(c.parsed)
         THEN response' = << Response(422, << >>, << >>, << >>) >>
         ELSE IF Returned(c.layout)
         THEN response' = << Response(200, << >>, << TRUE >>, << >>) >>
         ELSE IF c.layout.kind = "ValueError"
         THEN response' = << Response(200, << >>, << FALSE >>, << >>) >>
         ELSE response' = << Response(500, << >>, << >>, << >>) >>
    /\ UNCHANGED << warehouse_data, history >>
    /\ UNCHANGED << unitVars, engineVars, dashVars >>

(* GET /api/warehouse/{warehouse_id}                                       *)
get_warehouse(warehouse_id) ==
    /\ request' = << [op |-> "get", body |-> [id |-> warehouse_id]] >>
    /\ IF ~Stored(warehouse_id)
       THEN response' = << Response(404, << >>, << >>, << >>) >>
       ELSE response' = << Response(200, << >>, << >>, << warehouse_data[warehouse_id] >>) >>
    /\ UNCHANGED << warehouse_data, history >>
    /\ UNCHANGED << unitVars, engineVars, dashVars >>

(* A delete that answers success and leaves the entry in the store.        *)
delete_warehouseKeeps(warehouse_id) ==
    /\ request' = << [op |-> "delete", body |-> [id |-> warehouse_id]] >>
    /\ IF Stored(warehouse_id)
       THEN /\ history' = [history EXCEPT ![warehouse_id] = << Deleted >>]
            /\ response' = << Response(200, << >>, << >>, << >>) >>
       ELSE /\ response' = << Response(404, << >>, << >>, << >>) >>
            /\ UNCHANGED history
    /\ UNCHANGED warehouse_data
    /\ UNCHANGED << unitVars, engineVars, dashVars >>

(* DELETE /api/warehouse/{warehouse_id}/delete                             *)
delete_warehouse(warehouse_id) ==
    /\ request' = << [op |-> "delete", body |-> [id |-> warehouse_id]] >>
    /\ IF Stored(warehouse_id)
       THEN /\ warehouse_data' = Remove(warehouse_data, warehouse_id)
            /\ history' = [history EXCEPT ![warehouse_id] = << Deleted >>]
            /\ response' = << Response(200, << >>, << >>, << >>) >>
       ELSE /\ response' = << Response(404, << >>, << >>, << >>) >>
            /\ UNCHANGED << warehouse_data, history >>
    /\ UNCHANGED << unitVars, engineVars, dashVars >>

(* The request bodies of the model.                                        *)
JsonRack(floors, rows, racks) ==
    [num_floors |-> floors, num_rows |-> rows, num_racks |-> racks,
     custom_gaps |-> << N(20) >>,
     gap_front |-> N(100), gap_back |-> N(100), gap_left |-> N(50), gap_right |-> N(50)]

JsonBlock(k, floors, rows, racks, pallet) ==
    [block_index |-> k, rack_config |-> JsonRack(floors, rows, racks),
     pallet_config |-> pallet]

JsonWarehouse(id, u, blocks) ==
    [id |-> id,
     warehouse_dimensions |-> [length |-> N(3000), width |-> N(2000), height |-> N(800),
                               unit |-> u],
     num_blocks |-> Len(blocks), block_gap |-> N(300), block_gap_unit |-> "cm",
     block_configs |-> blocks]

JsonBodies ==
    UNION { { JsonWarehouse(id, "cm",
                << JsonBlock(0, 2, 2, 4, Pallet("wooden", 2, 1, 2, "cm")) >>),
              JsonWarehouse(id, "cm",
                << JsonBlock(0, 2, 2, 4, Pallet("wooden", 1, 1, 1, "cm")),
                   [JsonBlock(1, 1, 1, 2, Pallet("plastic", 1, 1, 2, "cm"))
                        EXCEPT !.block_index = 1] @@
                   [pallet_configs |-> << Pallet("plastic", 1, 1, 2, "cm") >>] >>),
              JsonWarehouse(id, "mm",
                << JsonBlock(0, 2, 2, 4, Pallet("wooden", 1, 1, 1, "cm")) >>),
              JsonWarehouse(id, "cm",
                << JsonBlock(0, 0, 2, 4, Pallet("wooden", 1, 1, 1, "cm")) >>),
              JsonWarehouse(id, "cm",
                << [block_index |-> 0, rack_config |-> JsonRack(2, 2, 4)] >>) } :
            id \in Ids }

(* The dashboard's "Generate" callback (frontend/warehouse_visualizer.py).  *)
(* A form holds the values of the dashboard's inputs: the warehouse        *)
(* fields, one list per block input and the rack-gap inputs with their     *)
(* ids << block index, gap index >>.                                       *)

(* list[block_idx] if block_idx < len(list) else default                   *)
ListGet(list, block_idx, default) ==
    IF block_idx < Len(list) THEN list[block_idx + 1] ELSE default

(* "str(block_idx) in gap_id['index']" for an index string "b-g" of one    *)
(* digit each: the digit of block_idx is b or g.                           *)
index_mentions(gap_id, block_idx) == gap_id[1] = block_idx \/ gap_id[2] = block_idx

(* rack_gap_ids.index(gap_id): the 0-based place of the first equal id.    *)
list_index(ids, gap_id) ==
    (CHOOSE n \in 1..Len(ids) : ids[n] = gap_id /\ \A m \in 1..(n - 1) : ids[m] # gap_id) - 1

(* The rack_gaps list of one block (lines 828-843).                        *)
rack_gaps(form, block_idx) ==
    Only({ Tuple([k \in 1..Len(hit) |->
                    [from_rack |-> form.rack_gap_ids[hit[k]][2] + 1,
                     to_rack   |-> form.rack_gap_ids[hit[k]][2] + 2,
                     gap  |-> form.rack_gap_values[list_index(form.rack_gap_ids,
                                                        form.rack_gap_ids[hit[k]]) + 1],
                     unit |-> ListGet(form.rack_gap_units,
                                      list_index(form.rack_gap_ids,
                                                 form.rack_gap_ids[hit[k]]), "cm")]]) :
           hit \in { SelectSeq(Tuple([n \in 1..Len(form.rack_gap_ids) |-> n]),
                        LAMBDA n :
                            /\ index_mentions(form.rack_gap_ids[n], block_idx)
                            /\ list_index(form.rack_gap_ids, form.rack_gap_ids[n])
                                    < Len(form.rack_gap_values)) } })

(* The config dictionary the callback builds (lines 791-845).              *)
dashboard_config(form) ==
    [id |-> form.warehouse_id,
     warehouse_dimensions |-> [length |-> form.wl, width |-> form.ww, height |-> form.wh,
                               unit |-> form.wlu],
     num_blocks |-> form.num_blocks,
     block_gap |-> form.block_gap,
     block_gap_unit |-> form.block_gap_unit,
     block_configs |->
        Tuple([k \in 1..form.num_blocks |->
            [block_index |-> k - 1,
             rack_config |-> [floors |-> ListGet(form.rack_floors_list, k - 1, 3),
                              rows   |-> ListGet(form.rack_rows_list, k - 1, 2),
                              count  |-> ListGet(form.rack_count_list, k - 1, 4)],
             wall_gaps |-> [front |-> ListGet(form.gap_front_list, k - 1, N(100)),
                            front_unit |-> ListGet(form.gap_front_unit_list, k - 1, "cm"),
                            back |-> ListGet(form.gap_back_list, k - 1, N(100)),
                            back_unit |-> ListGet(form.gap_back_unit_list, k - 1, "cm"),
                            left |-> ListGet(form.gap_left_list, k - 1, N(50)),
                            left_unit |-> ListGet(form.gap_left_unit_list, k - 1, "cm"),
                            right |-> ListGet(form.gap_right_list, k - 1, N(50)),
                            right_unit |-> ListGet(form.gap_right_unit_list, k - 1, "cm")],
             rack_gaps |-> rack_gaps(form, k - 1)]])]

(* send_to_backend: the config is posted to /api/warehouse/create.         *)
send_to_backend(form) ==
    \E posted \in { dashboard_config(form) } : create_warehouse(posted)

(* The forms of the model: the dashboard's initial values for one or two   *)
(* blocks of 2 rows and 4 racks, with one rack-gap input per block.        *)
DashboardForm(id, num_blocks, floors) ==
    [warehouse_id |-> id,
     wl |-> N(3000), wlu |-> "cm", ww |-> N(2000), wh |-> N(800),
     num_blocks |-> num_blocks, block_gap |-> N(300), block_gap_unit |-> "cm",
     rack_floors_list |-> Tuple([b \in 1..num_blocks |-> floors]),
     rack_rows_list   |-> Tuple([b \in 1..num_blocks |-> 2]),
     rack_count_list  |-> Tuple([b \in 1..num_blocks |-> 4]),
     gap_front_list |-> Tuple([b \in 1..num_blocks |-> N(100)]),
     gap_front_unit_list |-> Tuple([b \in 1..num_blocks |-> "cm"]),
     gap_back_list |-> Tuple([b \in 1..num_blocks |-> N(100)]),
     gap_back_unit_list |-> Tuple([b \in 1..num_blocks |-> "cm"]),
     gap_left_list |-> Tuple([b \in 1..num_blocks |-> N(50)]),
     gap_left_unit_list |-> Tuple([b \in 1..num_blocks |-> "cm"]),
     gap_right_list |-> Tuple([b \in 1..num_blocks |-> N(50)]),
     gap_right_unit_list |-> Tuple([b \in 1..num_blocks |-> "cm"]),
     rack_gap_values |-> Tuple([b \in 1..num_blocks |-> N(20)]),
     rack_gap_units  |-> Tuple([b \in 1..num_blocks |-> "cm"]),
     rack_gap_ids    |-> Tuple([b \in 1..num_blocks |-> << b - 1, 0 >>])]

DashboardForms ==
    { DashboardForm(id, num_blocks, floors) :
        id \in Ids, num_blocks \in 1..MaxCards, floors \in {1, 3} }

ApiInit ==
    /\ warehouse_data = [id \in {} |-> << >>]
    /\ request = << >> /\ response = << >>
    /\ history = [id \in Ids |-> << >>]
    /\ UnitIdle /\ EngineIdle /\ DashIdle

ApiNext ==
    \/ \E j \in JsonBodies : create_warehouse(j) \/ validate_config(j)
    \/ \E id \in Ids : get_warehouse(id) \/ delete_warehouse(id)
    \/ \E form \in DashboardForms : send_to_backend(form)

Spec == ApiInit /\ [][ApiNext]_vars

----------------------------------------------------------------------------
(* Properties of the engine, checked on direct calls (SpecEngine)          *)

Cfg     == config[1]
Called  == last # << >>
Outcome == last[1].result
Layout  == Val(Outcome)
HasLayout == Called /\ Returned(Outcome)

(* The converted value of a configuration number whose unit is supported.  *)
Cm(v, u) == Val(convert_to_centimeters(conversion_factors, v, u))

Left(e)  == RSub(e.position.x, RDiv(e.dimensions.width, R(2)))
Right(e) == RAdd(e.position.x, RDiv(e.dimensions.width, R(2)))

(* C1: for every accepted config with num_blocks >= 1 and as many block    *)
(* configs as num_blocks, the widths of the emitted blocks plus            *)
(* block_gap * (num_blocks - 1) add up to the warehouse width in cm.       *)
C1_TilingComplete ==
    (HasLayout /\ Cfg.num_blocks >= 1 /\ Len(Cfg.block_configs) = Cfg.num_blocks)
    => RAdd(RSum([i \in 1..Len(Layout.blocks) |-> Layout.blocks[i].dimensions.width]),
            RMul(Cm(Cfg.block_gap, Cfg.block_gap_unit), R(Cfg.num_blocks - 1)))
       = Cm(Cfg.warehouse_dimensions.width, Cfg.warehouse_dimensions.unit)

(* C2 as stated: two racks of one block and one row, in different columns, *)
(* have x-intervals [x - width/2, x + width/2] that share at most an       *)
(* endpoint.                                                               *)
NoOverlapIn(racks) ==
    \A k1, k2 \in 1..Len(racks) :
        (racks[k1].row = racks[k2].row /\ racks[k1].column # racks[k2].column)
        => \/ RLe(Right(racks[k1]), Left(racks[k2]))
           \/ RLe(Right(racks[k2]), Left(racks[k1]))

C2_NoOverlap ==
    HasLayout => \A i \in 1..Len(Layout.blocks) : NoOverlapIn(Layout.blocks[i].racks)

NonNegativeGaps(block_conf) ==
    \A k \in 1..Len(block_conf.rack_config.custom_gaps) :
        RLe(RZero, block_conf.rack_config.custom_gaps[k].q)

(* C2 (amended): in a block whose custom gaps are all non-negative, two    *)
(* racks of one row in different columns have x-intervals that share at    *)
(* most an endpoint.                                                       *)
C2_NoOverlapNonNegativeGaps ==
    HasLayout => \A i \in 1..Len(Layout.blocks) :
                    NonNegativeGaps(Cfg.block_configs[i])
                    => NoOverlapIn(Layout.blocks[i].racks)

(* A layout with a block of non-negative, non-empty custom gaps that holds *)
(* two racks in one row.                                                   *)
C2_Witness ==
    /\ HasLayout
    /\ \E i \in 1..Len(Layout.blocks) :
        /\ NonNegativeGaps(Cfg.block_configs[i])
        /\ Cfg.block_configs[i].rack_config.custom_gaps # << >>
        /\ \E k1, k2 \in 1..Len(Layout.blocks[i].racks) :
            /\ Layout.blocks[i].racks[k1].row = Layout.blocks[i].racks[k2].row
            /\ Layout.blocks[i].racks[k1].column < Layout.blocks[i].racks[k2].column

(* The pallets of a block configuration that target cell (f, r, c), in     *)
(* config order, each as << type, position >>.                             *)
Targeting(pallets, f, r, c) ==
    LET hit == SelectSeq(pallets, LAMBDA p : p.position = [floor |-> f, row |-> r, col |-> c])
    IN  [k \in 1..Len(hit) |-> << hit[k].type, hit[k].position >>]

(* C3: the pallets of every rack-floor entry are exactly, in config order, *)
(* the block's pallets whose position is the entry's (floor, row, column), *)
(* and no two entries of a block have the same indices.                    *)
C3_PalletsAttached ==
    HasLayout =>
        \A i \in 1..Len(Layout.blocks) :
            LET racks == Layout.blocks[i].racks
                pallets == get_pallet_configs(Cfg.block_configs[i])
            IN  /\ \A k \in 1..Len(racks) :
                     [n \in 1..Len(racks[k].pallets) |->
                        << racks[k].pallets[n].type, racks[k].pallets[n].position >>]
                     = Targeting(pallets, racks[k].floor, racks[k].row, racks[k].column)
                /\ \A k1, k2 \in 1..Len(racks) :
                     (k1 # k2) =>
                        << racks[k1].floor, racks[k1].row, racks[k1].column >>
                        # << racks[k2].floor, racks[k2].row, racks[k2].column >>

(* A layout in which one cell holds two pallets and another cell, with     *)
(* row # column, holds one.                                                *)
C3_Witness ==
    /\ HasLayout
    /\ \E i \in 1..Len(Layout.blocks) :
        \E k1, k2 \in 1..Len(Layout.blocks[i].racks) :
            /\ Len(Layout.blocks[i].racks[k1].pallets) >= 2
            /\ Len(Layout.blocks[i].racks[k2].pallets) = 1
            /\ Layout.blocks[i].racks[k2].row # Layout.blocks[i].racks[k2].column

(* C6: a layout is returned only when no computed slot size is zero or     *)
(* negative: every block and rack-floor dimension of a returned layout is  *)
(* positive, and the block width is the computed one, never a substitute.  *)
Positive(q) == RLt(RZero, q)

C6_NoNonPositiveSize ==
    HasLayout =>
        /\ \A i \in 1..Len(Layout.blocks) :
            /\ Positive(Layout.blocks[i].dimensions.width)
            /\ Positive(Layout.blocks[i].dimensions.length)
            /\ Positive(Layout.blocks[i].dimensions.height)
            /\ \A k \in 1..Len(Layout.blocks[i].racks) :
                /\ Positive(Layout.blocks[i].racks[k].dimensions.width)
                /\ Positive(Layout.blocks[i].racks[k].dimensions.length)
                /\ Positive(Layout.blocks[i].racks[k].dimensions.height)
        /\ \A i \in 1..Len(Layout.blocks) :
            RMul(Layout.blocks[i].dimensions.width, R(Cfg.num_blocks))
            = RSub(Cm(Cfg.warehouse_dimensions.width, Cfg.warehouse_dimensions.unit),
                   RMul(Cm(Cfg.block_gap, Cfg.block_gap_unit),
                        R(IF Cfg.num_blocks > 1 THEN Cfg.num_blocks - 1 ELSE 0)))

(* C10: a config with a block of rows = 0 and racks_total > 0 makes the    *)
(* call fail; no layout is returned for it.                                *)
C10_RowsZeroFails ==
    (Called /\ \E i \in 1..Len(Cfg.block_configs) :
                    /\ Cfg.block_configs[i].rack_config.num_rows = 0
                    /\ Cfg.block_configs[i].rack_config.num_racks > 0)
    => ~Returned(Outcome)

----------------------------------------------------------------------------
(* Determinism of the engine (SpecRepeat)                                  *)

(* C5: every call with the configuration returns what the first call with  *)
(* it returned, on whichever instance and whatever calls came in between.  *)
C5_SameConfigSameLayout ==
    (first # << >> /\ last # << >>) => last[1].result = first[1].result

(* The configuration was laid out on two instances, with a call on another *)
(* configuration made meanwhile.                                           *)
C5_Witness ==
    /\ first # << >> /\ last # << >> /\ other # << >>
    /\ first[1].inst # last[1].inst
    /\ Returned(last[1].result)
    /\ Returned(other[1].result)

----------------------------------------------------------------------------
(* Properties of the unit conversions (SpecUnits)                          *)

(* The conversion table of the specification.                              *)
TableUnits == {"mm", "cm", "m", "km", "in", "ft", "yd", "mi"}
TableFactor(u) ==
    CASE u = "mm" -> Norm(1, 10)
      [] u = "cm" -> R(1)
      [] u = "m"  -> R(100)
      [] u = "km" -> R(100000)
      [] u = "in" -> Norm(254, 100)
      [] u = "ft" -> Norm(3048, 100)
      [] u = "yd" -> Norm(9144, 100)
      [] u = "mi" -> Norm(1609344, 10)

(* C7: at both call sites a conversion with a unit outside the table fails *)
(* with the unsupported-unit error (ValueError); none returns a value.     *)
C7_UnknownUnitFails ==
    unit \notin TableUnits =>
        /\ backend_ret # << >> => backend_ret[1].kind = "ValueError"
        /\ frontend_ret # << >> => frontend_ret[1].kind = "ValueError"

(* C8: at both call sites a number converted with a unit of the table      *)
(* returns the number times the unit's factor.                             *)
C8_TableFactors ==
    (value.t = "num" /\ unit \in TableUnits) =>
        /\ backend_ret # << >> => backend_ret[1] = Return(RMul(value.q, TableFactor(unit)))
        /\ frontend_ret # << >> => frontend_ret[1] = Return(RMul(value.q, TableFactor(unit)))

(* C9: at both call sites None or '' converted with a unit of the table    *)
(* returns 0.                                                              *)
C9_NullIsZero ==
    (value.t \in {"none", "empty"} /\ unit \in TableUnits) =>
        /\ backend_ret # << >> => backend_ret[1] = Return(RZero)
        /\ frontend_ret # << >> => frontend_ret[1] = Return(RZero)

----------------------------------------------------------------------------
(* Properties of the API (Spec)                                            *)

(* C4: after a successful create, the pallet of each block whose position  *)
(* is the (floor, row, column) of a rack-floor entry of that block is      *)
(* among the pallets of that entry, in the layout returned and stored.     *)
PalletInEntry(layout, i, pallet) ==
    \A k \in 1..Len(layout.blocks[i].racks) :
        LET e == layout.blocks[i].racks[k]
        IN  (pallet.position = [floor |-> e.floor, row |-> e.row, col |-> e.column])
            => \E n \in 1..Len(e.pallets) : e.pallets[n].type = pallet.type

C4_ApiPalletAttached ==
    (/\ request # << >> /\ request[1].op = "create"
     /\ response[1].status = 200)
    => \A i \in 1..Len(request[1].body.block_configs) :
          /\ PalletInEntry(response[1].layout[1], i,
                           request[1].body.block_configs[i].pallet_config)
          /\ PalletInEntry(warehouse_data[request[1].body.id].layout, i,
                           request[1].body.block_configs[i].pallet_config)

----------------------------------------------------------------------------
(* Malformed configurations handed to the engine (SpecEngine)              *)

(* C11: a call whose block_configs has another length than num_blocks      *)
(* fails, and a returned layout has exactly num_blocks blocks.             *)
C11_BlockCountMatches ==
    Called =>
        /\ Len(Cfg.block_configs) # Cfg.num_blocks => ~Returned(Outcome)
        /\ Returned(Outcome) => Len(Layout.blocks) = Cfg.num_blocks

(* The pallet has an entry of the block's rack list at its position.       *)
Placed(pallet, racks) ==
    \E k \in 1..Len(racks) :
        /\ pallet.position = [floor |-> racks[k].floor, row |-> racks[k].row,
                              col |-> racks[k].column]
        /\ \E n \in 1..Len(racks[k].pallets) : racks[k].pallets[n].type = pallet.type

(* C12: every pallet of every block configuration is in a rack-floor entry *)
(* of a returned layout: a pallet whose position is outside the emitted    *)
(* grid makes the call fail and is never left out.                         *)
C12_NoPalletLeftOut ==
    HasLayout =>
        \A i \in 1..Len(Layout.blocks) :
            \A n \in 1..Len(get_pallet_configs(Cfg.block_configs[i])) :
                Placed(get_pallet_configs(Cfg.block_configs[i])[n], Layout.blocks[i].racks)

----------------------------------------------------------------------------
(* Properties of the handlers and of the store (Spec)                      *)

Requested(op) == request # << >> /\ request[1].op = op
Body   == request[1].body
Answer == response[1]

(* C13: a validate request whose body is a config on which the layout      *)
(* computation fails is answered {valid: false}; no failure of the         *)
(* computation leaves the handler.                                         *)
C13_ValidateNeverPropagates ==
    Requested("validate") =>
        \A c \in { parse_and_layout(Body) } :
            (Returned(c.parsed) /\ ~Returned(c.layout))
            => (Answer.status = 200 /\ Answer.valid = << FALSE >>)

(* C14: a validate that follows a create of the same config answers        *)
(* valid = true exactly when that create succeeded and valid = false       *)
(* exactly when it failed.                                                 *)
C14_ValidateAgreesWithCreate ==
    [][ (/\ Requested("create") /\ Answer.status # 422
         /\ request'[1].op = "validate" /\ request'[1].body = Body)
        => /\ (response'[1].valid = << TRUE >>) <=> (Answer.status = 200)
           /\ (response'[1].valid = << FALSE >>) <=> (Answer.status # 200) ]_vars

(* C15: a validate and a get leave the store as it was, whatever they      *)
(* answer; a step that changes the store is a create or a delete.          *)
C15_OnlyCreateDeleteWrite ==
    [][ /\ request'[1].op \in {"validate", "get"} => warehouse_data' = warehouse_data
        /\ warehouse_data' # warehouse_data => request'[1].op \in {"create", "delete"} ]_vars

(* A config that is not the stored one of its id was validated with        *)
(* success, and the store holds the other id too.                          *)
C15_Witness ==
    /\ Requested("validate") /\ Answer.valid = << TRUE >>
    /\ DOMAIN warehouse_data = Ids
    /\ warehouse_data[Body.id].config # Val(WarehouseConfig_validate(Body))

(* C16: the store holds an entry for an id exactly when the last           *)
(* successful create or delete on the id was a create, the entry is the    *)
(* {config, layout} of that create, and a get of an id whose last was a    *)
(* delete answers not-found.                                               *)
C16_StoreIsLastCreate ==
    /\ \A id \in Ids :
        /\ Stored(id) <=> (history[id] # << >> /\ history[id][1].op = "create")
        /\ Stored(id) => warehouse_data[id] = [config |-> history[id][1].config,
                                               layout |-> history[id][1].layout]
    /\ DOMAIN warehouse_data \subseteq Ids
    /\ (Requested("get") /\ history[Body.id] = << Deleted >>) => Answer.status = 404

(* One id was re-created over its entry; the other was deleted and then    *)
(* read.                                                                   *)
C16_Witness ==
    /\ Requested("get") /\ Answer.status = 404 /\ history[Body.id] = << Deleted >>
    /\ \E id \in Ids : /\ history[id] # << >> /\ history[id][1].op = "create"
                       /\ history[id][1].replaced

(* C17: a create whose layout computation fails returns no layout and      *)
(* leaves the store as it was.                                             *)
C17_FailedCreateKeepsStore ==
    [][ (request'[1].op = "create" /\ response'[1].status = 400)
        => (response'[1].layout = << >> /\ warehouse_data' = warehouse_data) ]_vars

(* A create failed on an id that has an entry.                             *)
C17_Witness ==
    /\ Requested("create") /\ Answer.status = 400 /\ Answer.layout = << >>
    /\ Stored(Body.id)

(* C18: in every order in which the handlers of concurrent requests run,   *)
(* each entry of the store, and each entry a get returns, has a config and *)
(* a layout, and the layout is the one computed from that config.          *)
Consistent(entry) ==
    /\ DOMAIN entry = {"config", "layout"}
    /\ Return(entry.layout) = create_warehouse_layout(conversion_factors, entry.config)

C18_EntriesConsistent ==
    /\ \A id \in DOMAIN warehouse_data : Consistent(warehouse_data[id])
    /\ (Requested("get") /\ Answer.status = 200)
       => (Answer.warehouse = << warehouse_data[Body.id] >> /\ Consistent(Answer.warehouse[1]))

(* A get read an entry that a create had written over an earlier one,      *)
(* after a delete on the other id.                                         *)
C18_Witness ==
    /\ Requested("get") /\ Answer.status = 200
    /\ history[Body.id][1].replaced
    /\ \E id \in Ids : history[id] = << Deleted >>

----------------------------------------------------------------------------
(* The worked examples of the engine (SpecEngine)                          *)

(* A warehouse of 3000 x 2000 x 800 cm with 2 blocks and a block gap of    *)
(* 300 cm.                                                                 *)
TwoBlockExample ==
    /\ Cfg.warehouse_dimensions =
            [length |-> N(3000), width |-> N(2000), height |-> N(800), unit |-> "cm"]
    /\ Cfg.num_blocks = 2
    /\ Cfg.block_gap = N(300) /\ Cfg.block_gap_unit = "cm"

(* C19 as stated: in the two-block example every block is 850 cm wide and  *)
(* the centers of the first and second block are at x = -1075 and x = 925. *)
C19_ExampleCenters ==
    (HasLayout /\ TwoBlockExample) =>
        \A i \in 1..Len(Layout.blocks) :
            /\ Layout.blocks[i].dimensions.width = R(850)
            /\ i = 1 => Layout.blocks[i].position.x = R(-1075)
            /\ i = 2 => Layout.blocks[i].position.x = R(925)

(* C19 (amended): in the two-block example every block is 850 cm wide and  *)
(* the centers of the first and second block are at x = -575 and x = 575.  *)
C19_ExampleCentersSymmetric ==
    (HasLayout /\ TwoBlockExample) =>
        \A i \in 1..Len(Layout.blocks) :
            /\ Layout.blocks[i].dimensions.width = R(850)
            /\ i = 1 => Layout.blocks[i].position.x = R(-575)
            /\ i = 2 => Layout.blocks[i].position.x = R(575)

(* The two-block example was laid out with both of its blocks.             *)
C19_Witness == HasLayout /\ TwoBlockExample /\ Len(Layout.blocks) = 2

(* A block configuration with rows = 2, racks_total = 4 and                *)
(* custom_gaps = [20] cm.                                                  *)
TwoRowExample(block_conf) ==
    /\ block_conf.rack_config.num_rows = 2
    /\ block_conf.rack_config.num_racks = 4
    /\ block_conf.rack_config.custom_gaps = << N(20) >>
    /\ block_conf.rack_config.gap_unit = "cm"

(* The columns of the racks emitted in a row, and the distance between the *)
(* right face of the row's first rack and the left face of its second.     *)
ColumnsOf(racks, r) == { racks[k].column : k \in { n \in 1..Len(racks) : racks[n].row = r } }

Separated(racks, r, gap) ==
    \A k1, k2 \in 1..Len(racks) :
        (/\ racks[k1].row = r /\ racks[k2].row = r
         /\ racks[k1].column = 1 /\ racks[k2].column = 2)
        => RSub(Left(racks[k2]), Right(racks[k1])) = gap

(* (available_width - 20) / 2 for block i of the layout.                   *)
ExampleRackWidth(i) ==
    RDiv(RSub(RSub(RSub(Layout.blocks[i].dimensions.width,
                        Cm(Cfg.block_configs[i].rack_config.gap_left,
                           Cfg.block_configs[i].rack_config.wall_gap_unit)),
                   Cm(Cfg.block_configs[i].rack_config.gap_right,
                      Cfg.block_configs[i].rack_config.wall_gap_unit)),
              R(20)),
         R(2))

(* C20 as stated: in the two-row example each row holds two racks, which   *)
(* are 20 cm apart, and every rack is (available_width - 20) / 2 wide.     *)
C20_ExampleGaps ==
    HasLayout =>
        \A i \in 1..Len(Layout.blocks) :
            TwoRowExample(Cfg.block_configs[i]) =>
                /\ \A r \in 1..2 : /\ ColumnsOf(Layout.blocks[i].racks, r) = {1, 2}
                                   /\ Separated(Layout.blocks[i].racks, r, R(20))
                /\ \A k \in 1..Len(Layout.blocks[i].racks) :
                        Layout.blocks[i].racks[k].dimensions.width = ExampleRackWidth(i)

(* C20 (amended): in the two-row example each row holds two racks; those   *)
(* of the first row are 20 cm apart and those of the second row 0 cm,      *)
(* the gap index running on from the first row; every rack is              *)
(* (available_width - 20) / 2 wide, or 50 cm wide when that is below 10 cm.*)
C20_ExampleGapsRunningIndex ==
    HasLayout =>
        \A i \in 1..Len(Layout.blocks) :
            TwoRowExample(Cfg.block_configs[i]) =>
                /\ \A r \in 1..2 : ColumnsOf(Layout.blocks[i].racks, r) = {1, 2}
                /\ Separated(Layout.blocks[i].racks, 1, R(20))
                /\ Separated(Layout.blocks[i].racks, 2, RZero)
                /\ \A k \in 1..Len(Layout.blocks[i].racks) :
                        Layout.blocks[i].racks[k].dimensions.width =
                            (IF RLt(ExampleRackWidth(i), R(min_rack_w))
                             THEN R(fallback_rack_w) ELSE ExampleRackWidth(i))

(* The two-row example was laid out in a block wide enough for its racks.  *)
C20_Witness ==
    /\ HasLayout
    /\ \E i \in 1..Len(Layout.blocks) :
        /\ TwoRowExample(Cfg.block_configs[i])
        /\ Len(Layout.blocks[i].racks) >= 4
        /\ RLe(R(min_rack_w), ExampleRackWidth(i))

----------------------------------------------------------------------------
(* Placement of the racks within a block (SpecEngine)                      *)

(* The converted wall gaps of block i's configuration.                     *)
WallGap(i, side) ==
    Cm(Cfg.block_configs[i].rack_config[side], Cfg.block_configs[i].rack_config.wall_gap_unit)

(* gap_front + r * (row length + aisle) + row length / 2 for entry e of    *)
(* block i, r being the entry's 0-based row.                               *)
FromFrontGap(i, e) ==
    RAdd(RAdd(WallGap(i, "gap_front"),
              RMul(R(e.row - 1), RAdd(e.dimensions.length, R(row_gap_std)))),
         RDiv(e.dimensions.length, R(2)))

(* C21 as stated: the length-axis coordinate of every rack entry is        *)
(* gap_front + r * (row length + aisle) + row length / 2, the near wall    *)
(* being at 0.                                                             *)
C21_RowCentersFromZero ==
    HasLayout =>
        \A i \in 1..Len(Layout.blocks) :
            \A k \in 1..Len(Layout.blocks[i].racks) :
                Layout.blocks[i].racks[k].position.z
                = FromFrontGap(i, Layout.blocks[i].racks[k])

(* C21 (amended): the length-axis coordinate of every rack entry is        *)
(* -block_length / 2 + gap_front + r * (row length + aisle)                *)
(* + row length / 2: the near wall is at -block_length / 2, the rows start *)
(* at the front wall gap from it.                                          *)
C21_RowCentersFromNearWall ==
    HasLayout =>
        \A i \in 1..Len(Layout.blocks) :
            \A k \in 1..Len(Layout.blocks[i].racks) :
                Layout.blocks[i].racks[k].position.z
                = RAdd(RNeg(RDiv(Layout.blocks[i].dimensions.length, R(2))),
                       FromFrontGap(i, Layout.blocks[i].racks[k]))

(* A layout with a rack in the second row of a block whose front and back  *)
(* wall gaps differ.                                                       *)
C21_Witness ==
    /\ HasLayout
    /\ \E i \in 1..Len(Layout.blocks) :
        /\ WallGap(i, "gap_front") # WallGap(i, "gap_back")
        /\ \E k \in 1..Len(Layout.blocks[i].racks) :
            /\ Layout.blocks[i].racks[k].row = 2
            /\ Positive(Layout.blocks[i].racks[k].dimensions.length)

(* The entries of a rack list at row r and column c (1-based).             *)
EntriesAt(racks, r, c) ==
    { k \in 1..Len(racks) : racks[k].row = r /\ racks[k].column = c }

(* The number of racks emitted before the rack at row r, column c.         *)
EmittedBefore(racks, r, c) ==
    Cardinality({ << racks[k].row, racks[k].column >> :
                  k \in { n \in 1..Len(racks) :
                            \/ racks[n].row < r
                            \/ racks[n].row = r /\ racks[n].column < c } })

(* custom_gaps[g] (0-based g) of block i's configuration in centimeters,   *)
(* 0 beyond the end of the list.                                           *)
CustomGap(i, g) ==
    IF g < Len(Cfg.block_configs[i].rack_config.custom_gaps)
    THEN Cm(Cfg.block_configs[i].rack_config.custom_gaps[g + 1],
            Cfg.block_configs[i].rack_config.gap_unit)
    ELSE RZero

(* The left face the first rack of a row starts at.                        *)
LeftLimit(i) ==
    RAdd(RNeg(RDiv(Layout.blocks[i].dimensions.width, R(2))), WallGap(i, "gap_left"))

RightLimit(i) ==
    RSub(RDiv(Layout.blocks[i].dimensions.width, R(2)), WallGap(i, "gap_right"))

(* C22: the rack at a column after the first stands custom_gaps[k - 1]     *)
(* right of the rack before it in its row, k being the number of racks     *)
(* emitted in the block before it over all rows, and 0 when k - 1 is       *)
(* beyond the list; the first rack of each row starts at the left wall gap.*)
C22_GapByGlobalCount ==
    HasLayout =>
        \A i \in 1..Len(Layout.blocks) :
            \A k \in 1..Len(Layout.blocks[i].racks) :
                \E e \in { Layout.blocks[i].racks[k] } :
                    /\ e.column = 1 => Left(e) = LeftLimit(i)
                    /\ e.column > 1 =>
                        \A p \in EntriesAt(Layout.blocks[i].racks, e.row, e.column - 1) :
                            RSub(Left(e), Right(Layout.blocks[i].racks[p]))
                            = CustomGap(i, EmittedBefore(Layout.blocks[i].racks,
                                                         e.row, e.column) - 1)

(* A rack of a second row stands behind a gap of the list that is not the  *)
(* list's first.                                                           *)
C22_Witness ==
    /\ HasLayout
    /\ \E i \in 1..Len(Layout.blocks) :
        \E k \in 1..Len(Layout.blocks[i].racks) :
            /\ Layout.blocks[i].racks[k].row = 2
            /\ Layout.blocks[i].racks[k].column = 2
            /\ CustomGap(i, 2) # RZero
            /\ CustomGap(i, 2) # CustomGap(i, 0)
            /\ EmittedBefore(Layout.blocks[i].racks, 2, 2) = 3

(* C23: in every row that holds racks_per_row racks, the racks and the     *)
(* gaps between them span the available width: the row runs from the left  *)
(* wall gap to the right wall gap.                                         *)
C23_FullRowSpansWidth ==
    HasLayout =>
        \A i \in 1..Len(Layout.blocks) :
            \A rpr \in { racks_per_row(Cfg.block_configs[i].rack_config.num_racks,
                                        Cfg.block_configs[i].rack_config.num_rows) } :
                \A k \in 1..Len(Layout.blocks[i].racks) :
                    \E e \in { Layout.blocks[i].racks[k] } :
                        /\ e.column = 1 => Left(e) = LeftLimit(i)
                        /\ e.column = rpr => Right(e) = RightLimit(i)

(* The number of racks row r (1-based) holds when n racks fill rows of rpr *)
(* in order.                                                               *)
RacksInRow(n, rpr, r) ==
    IF n - (r - 1) * rpr <= 0 THEN 0
    ELSE IF n - (r - 1) * rpr < rpr THEN n - (r - 1) * rpr
    ELSE rpr

(* C24: a block with rows >= 1 and floors >= 1 gets racks_total racks of   *)
(* one entry per floor: row r holds the columns 1..m, m being what is left *)
(* of racks_total after r - 1 rows of ceil(racks_total / rows), at most a  *)
(* full row and none once racks_total is reached.                          *)
C24_ExactlyRacksTotal ==
    HasLayout =>
        \A i \in 1..Len(Layout.blocks) :
            \A rc \in { Cfg.block_configs[i].rack_config } :
                (rc.num_rows >= 1 /\ rc.num_floors >= 1) =>
                    /\ Len(Layout.blocks[i].racks) = rc.num_racks * rc.num_floors
                    /\ \A r \in 1..rc.num_rows :
                        { Layout.blocks[i].racks[k].column :
                            k \in { n \in 1..Len(Layout.blocks[i].racks) :
                                      Layout.blocks[i].racks[n].row = r } }
                        = 1..RacksInRow(rc.num_racks,
                                        ceil_div(rc.num_racks, rc.num_rows), r)
                    /\ \A k \in 1..Len(Layout.blocks[i].racks) :
                        /\ Layout.blocks[i].racks[k].row \in 1..rc.num_rows
                        /\ { Layout.blocks[i].racks[n].floor :
                               n \in EntriesAt(Layout.blocks[i].racks,
                                               Layout.blocks[i].racks[k].row,
                                               Layout.blocks[i].racks[k].column) }
                           = 1..rc.num_floors

(* A block of 2 rows and 3 racks, whose emission stopped in the middle of  *)
(* the second row.                                                         *)
C24_Witness ==
    /\ HasLayout
    /\ \E i \in 1..Len(Layout.blocks) :
        \E rc \in { Cfg.block_configs[i].rack_config } :
            /\ rc.num_rows = 2 /\ rc.num_floors = 2
            /\ rc.num_racks = 3
            /\ Len(Layout.blocks[i].racks) = rc.num_racks * 2

(* C25: every entry of a block is as high as 80 % of the block height     *)
(* divided by the floor count, floor f (0-based) is centered at            *)
(* f * floor_height + floor_height / 2, so that it stands on the floor     *)
(* below it from 0 up, and the top of the highest floor is not above the   *)
(* block height.                                                           *)
C25_FloorsStack ==
    HasLayout =>
        \A i \in 1..Len(Layout.blocks) :
            \A k \in 1..Len(Layout.blocks[i].racks) :
                \E p \in { [e |-> Layout.blocks[i].racks[k],
                            floors |-> Cfg.block_configs[i].rack_config.num_floors,
                            H |-> Layout.blocks[i].dimensions.height] } :
                    /\ p.e.dimensions.height
                       = RDiv(RMul(p.H, Norm(rack_h_percent, 100)), R(p.floors))
                    /\ p.e.position.y
                       = RAdd(RMul(R(p.e.floor - 1), p.e.dimensions.height),
                              RDiv(p.e.dimensions.height, R(2)))
                    /\ RSub(p.e.position.y, RDiv(p.e.dimensions.height, R(2)))
                       = RMul(R(p.e.floor - 1), p.e.dimensions.height)
                    /\ RLe(RMul(R(p.floors), p.e.dimensions.height), p.H)

(* A second floor of positive height was emitted.                          *)
C25_Witness ==
    /\ HasLayout
    /\ \E i \in 1..Len(Layout.blocks) :
        \E k \in 1..Len(Layout.blocks[i].racks) :
            /\ Layout.blocks[i].racks[k].floor = 2
            /\ Positive(Layout.blocks[i].racks[k].dimensions.height)

(* C26: with non-negative wall and custom gaps, every rack entry lies      *)
(* between the wall gaps of its block on the width axis.                   *)
NonNegativeWallGaps(i) ==
    /\ RLe(RZero, WallGap(i, "gap_left"))
    /\ RLe(RZero, WallGap(i, "gap_right"))

C26_RacksInsideBlock ==
    HasLayout =>
        \A i \in 1..Len(Layout.blocks) :
            (NonNegativeGaps(Cfg.block_configs[i]) /\ NonNegativeWallGaps(i)) =>
                \A k \in 1..Len(Layout.blocks[i].racks) :
                    /\ RLe(LeftLimit(i), Left(Layout.blocks[i].racks[k]))
                    /\ RLe(Right(Layout.blocks[i].racks[k]), RightLimit(i))

----------------------------------------------------------------------------
(* The dashboard and the API (Spec)                                        *)

(* C27: the config the dashboard posts for a well-formed form is a         *)
(* WarehouseConfig of the endpoint: the create is accepted and answers     *)
(* with a layout.                                                          *)
C27_DashboardAccepted ==
    (Requested("create") /\ Body \in { dashboard_config(form) : form \in DashboardForms })
    => /\ Returned(WarehouseConfig_validate(Body))
       /\ Answer.status = 200 /\ Answer.layout # << >>

----------------------------------------------------------------------------
(* The dashboard's pallet rows (frontend/warehouse_visualizer.py).         *)
(* children[b] is the children list of the pallets container of block      *)
(* card b, each pallet row given by the index of its component ids,        *)
(* << block_idx, pallet_idx >>; clicked is the last click and the number   *)
(* of rows it removed.                                                     *)

MaxPallets == 3

(* create_pallet_config: the row's id is built from block_idx and          *)
(* pallet_idx.                                                             *)
create_pallet_config(pallet_idx, block_idx) == << block_idx, pallet_idx >>

(* manage_pallets triggered by the "Add Pallet" button of card block_idx:  *)
(* the new row's pallet index is the number of rows in the container.      *)
manage_pallets_add(block_idx) ==
    /\ Len(children[block_idx]) < MaxPallets
    /\ \E pallet_count \in { Len(children[block_idx]) } :
          /\ children' = [children EXCEPT ![block_idx] =
                            Append(@, create_pallet_config(pallet_count, block_idx))]
          /\ clicked' = << [type |-> "add-pallet",
                            index |-> create_pallet_config(pallet_count, block_idx),
                            removed |-> 0] >>
    /\ UNCHANGED << unitVars, engineVars, apiVars >>

(* manage_pallets triggered by the "Remove" button of the n-th row of card *)
(* block_idx.  The button is an ALL input: the callback runs for every     *)
(* container and keeps the rows whose index is not the clicked one.        *)
manage_pallets_remove(block_idx, n) ==
    /\ n \in 1..Len(children[block_idx])
    /\ \E pallet_to_remove \in { children[block_idx][n] } :
          /\ children' = [b \in DOMAIN children |->
                            SelectSeq(children[b], LAMBDA child : child # pallet_to_remove)]
          /\ clicked' = << [type |-> "remove-pallet", index |-> pallet_to_remove,
                            removed |-> Sum([b \in 1..MaxCards |->
                                Len(children[b - 1])
                                - Len(SelectSeq(children[b - 1],
                                        LAMBDA child : child # pallet_to_remove))])] >>
    /\ UNCHANGED << unitVars, engineVars, apiVars >>

DashInit ==
    /\ children = [b \in Cards |-> << >>] /\ clicked = << >>
    /\ UnitIdle /\ EngineIdle /\ ApiIdle

DashNext ==
    \/ \E b \in Cards : manage_pallets_add(b)
    \/ \E b \in Cards, n \in 1..MaxPallets : manage_pallets_remove(b, n)

SpecDashboard == DashInit /\ [][DashNext]_vars

(* C28: the pallet rows of each container have pairwise distinct ids, and  *)
(* a click on a row's remove button removes that one row.                  *)
C28_DistinctRowIds ==
    /\ \A b \in Cards :
        \A n, m \in 1..Len(children[b]) : n # m => children[b][n] # children[b][m]
    /\ (clicked # << >> /\ clicked[1].type = "remove-pallet") => clicked[1].removed = 1

====
